---- MODULE Spec2Model ----
(***************************************************************************)
(* UrbanMart dashboard (src/app.py): the filter-and-aggregate pipeline.    *)
(* The script is re-executed from top to bottom on every widget change;    *)
(* one action of this model is one widget change followed by the whole     *)
(* re-execution (load from cache, filters, empty check, KPIs, insights).   *)
(* Money is modelled in whole currency units (exact integers); quotients   *)
(* are exact rationals <<numerator, denominator>>.                         *)
(* Spec is the dashboard driven through its widgets; SpecOrder applies the *)
(* filters of one run one at a time in every order; SpecCriteria runs the  *)
(* filters on criteria taken as given.                                     *)
(***************************************************************************)
EXTENDS Integers, Sequences, FiniteSets, TLC

\* ------------------------------------------------------------------------
\* Bounds of the model
\* ------------------------------------------------------------------------
\* largest number of rows of the input file
MaxRows == 3
\* largest number of widgets that are away from their default at one time
MaxActiveFilters == 2

\* ------------------------------------------------------------------------
\* Arithmetic helpers
\* ------------------------------------------------------------------------
Abs(x) == IF x < 0 THEN -x ELSE x

RECURSIVE GCD(_, _)
GCD(a, b) == IF b = 0 THEN a ELSE GCD(b, a % b)

\* exact quotient a / b (b # 0) as a reduced fraction with positive denominator
Rat(a, b) ==
    LET g == GCD(Abs(a), Abs(b))
        s == IF b < 0 THEN -1 ELSE 1
    IN  <<(s * a) \div g, (s * b) \div g>>

\* the literal 0 of the "else 0" fallbacks, as a quotient
Zero == <<0, 1>>

\* nan, inf and -inf of a float division, as quotients with denominator 0
NaN == <<0, 0>>
PosInf == <<1, 0>>
NegInf == <<-1, 0>>

\* true division of a numpy number by a count: nan / inf on a zero
\* denominator (numpy scalars do not raise), the exact quotient otherwise
Divide(a, b) ==
    IF b = 0
    THEN (IF a = 0 THEN NaN ELSE IF a > 0 THEN PosInf ELSE NegInf)
    ELSE Rat(a, b)

\* q * 100 for a quotient q (nan and inf stay what they are)
Times100(q) == IF q[2] = 0 THEN q ELSE Rat(q[1] * 100, q[2])

RECURSIVE SumSeq(_)
SumSeq(s) == IF s = <<>> THEN 0 ELSE Head(s) + SumSeq(Tail(s))

RECURSIVE SumSet(_, _)
SumSet(f, S) ==
    IF S = {} THEN 0
    ELSE LET k == CHOOSE x \in S : TRUE IN f[k] + SumSet(f, S \ {k})

Range(s) == {s[i] : i \in DOMAIN s}

Column(rows, col) == [i \in DOMAIN rows |-> rows[i][col]]

\* ascending sequence of the elements of a finite set of integers
RECURSIVE SortedSeq(_)
SortedSeq(S) ==
    IF S = {} THEN <<>>
    ELSE LET m == CHOOSE x \in S : \A y \in S : x <= y
         IN  <<m>> \o SortedSeq(S \ {m})

\* ------------------------------------------------------------------------
\* Calendar (dates are day numbers of the year 2025, 1 = 1 January)
\* ------------------------------------------------------------------------
CumDays == <<0, 31, 59, 90, 120, 151, 181, 212, 243, 273, 304, 334, 365>>

MonthNumber(d) == CHOOSE m \in 1..12 : CumDays[m] < d /\ d <= CumDays[m + 1]

\* dt.to_period('M').astype(str): 'YYYY-MM', kept as the integer YYYYMM
\* (same order as the strings)
MonthKey(d) == 2025 * 100 + MonthNumber(d)

\* dt.to_period('Q').astype(str): 'YYYYQn', kept as the integer YYYYn
QuarterKey(d) == 2025 * 10 + ((MonthNumber(d) - 1) \div 3 + 1)

day_order == <<"Monday", "Tuesday", "Wednesday", "Thursday", "Friday",
               "Saturday", "Sunday">>

\* dt.day_name(): 1 January 2025 is a Wednesday
DayName(d) == day_order[((d + 1) % 7) + 1]

\* ------------------------------------------------------------------------
\* The input file
\* ------------------------------------------------------------------------
RawRow(id, bill, cust, date, store, chan, cat, seg, prod, q, p, disc) ==
    [transaction_id |-> id, bill_id |-> bill, customer_id |-> cust,
     date |-> date, store_location |-> store, channel |-> chan,
     product_category |-> cat, customer_segment |-> seg,
     product_name |-> prod, quantity |-> q, unit_price |-> p,
     discount_applied |-> disc]

\* the lines an input file is drawn from (10 = 10 Jan, 36 = 5 Feb,
\* 100 = 10 Apr); line 6 is discounted below zero
Catalogue ==
    << RawRow(1, "B1", "X", 10,  "Downtown", "In-store", "Beverages", "Loyal", "Cola",  2, 10, 0),
       RawRow(2, "B1", "X", 10,  "Downtown", "In-store", "Snacks",    "Loyal", "Chips", 1, 5,  1),
       RawRow(3, "B2", "Y", 100, "Uptown",   "Online",   "Beverages", "New",   "Juice", 1, 50, 0),
       RawRow(4, "B3", "X", 36,  "Uptown",   "In-store", "Snacks",    "Loyal", "Chips", 1, 35, 0),
       RawRow(5, "B4", "X", 36,  "Downtown", "Online",   "Beverages", "Loyal", "Cola",  1, 85, 0),
       RawRow(6, "B5", "X", 36,  "Downtown", "In-store", "Beverages", "Loyal", "Cola",  1, 5,  40) >>

\* the input files: the non-empty selections of at most MaxRows catalogue
\* lines, in catalogue order
RawTables ==
    { SelectSeq(Catalogue, LAMBDA r : r.transaction_id \in S) :
        S \in { T \in SUBSET (1..Len(Catalogue)) :
                  T # {} /\ Cardinality(T) <= MaxRows } }

margin_map == ("Beverages" :> 30) @@ ("Snacks" :> 25) @@ ("Personal Care" :> 40)
              @@ ("Dairy" :> 20) @@ ("Bakery" :> 20)

\* Series.map(margin_map): the margin as a quotient, nan for a category
\* outside the map
ProfitMargin(cat) ==
    IF cat \in DOMAIN margin_map THEN Rat(margin_map[cat], 100) ELSE NaN

LineRevenue(r) == r.quantity * r.unit_price - r.discount_applied

\* derived fields of one line
DeriveRow(r) ==
    [transaction_id |-> r.transaction_id, bill_id |-> r.bill_id,
     customer_id |-> r.customer_id, date |-> r.date,
     store_location |-> r.store_location, channel |-> r.channel,
     product_category |-> r.product_category,
     customer_segment |-> r.customer_segment,
     product_name |-> r.product_name, quantity |-> r.quantity,
     unit_price |-> r.unit_price, discount_applied |-> r.discount_applied,
     line_revenue |-> LineRevenue(r),
     month |-> MonthKey(r.date), quarter |-> QuarterKey(r.date),
     day_of_week |-> DayName(r.date),
     profit_margin |-> ProfitMargin(r.product_category),
     estimated_profit |->
        LET m == ProfitMargin(r.product_category)
        IN  IF m[2] = 0 THEN NaN ELSE Rat(LineRevenue(r) * m[1], m[2])]

load_and_process_data(file) == [i \in DOMAIN file |-> DeriveRow(file[i])]

\* ------------------------------------------------------------------------
\* Sidebar widgets: their options and defaults
\* ------------------------------------------------------------------------
AllDates == Range(Column(Catalogue, "date"))
AllDiscounts == Range(Column(Catalogue, "discount_applied"))
ChannelOptions == {"All", "In-store", "Online"}
\* values typed into the number_input (0..1000); 100 is its default
ThresholdChoices == {0, 50, 100}
DefaultThreshold == 100

MinOf(S) == CHOOSE x \in S : \A y \in S : x <= y
MaxOf(S) == CHOOSE x \in S : \A y \in S : x >= y

min_date(base) == MinOf(Range(Column(base, "date")))
max_date(base) == MaxOf(Range(Column(base, "date")))
all_locations(base) == Range(Column(base, "store_location"))
all_categories(base) == Range(Column(base, "product_category"))
all_segments(base) == Range(Column(base, "customer_segment"))
min_discount(base) == MinOf(Range(Column(base, "discount_applied")))
max_discount(base) == MaxOf(Range(Column(base, "discount_applied")))
min_qty(base) == MinOf(Range(Column(base, "quantity")))
max_qty(base) == MaxOf(Range(Column(base, "quantity")))

\* date_input returns one date while a range is being picked, else (start, end)
DateRangeOptions(base) ==
    LET D == {d \in AllDates : min_date(base) <= d /\ d <= max_date(base)}
    IN  {<<d>> : d \in D} \cup {p \in D \X D : p[1] <= p[2]}

\* a range slider returns (low, high) with low <= high
DiscountRangeOptions(base) ==
    LET D == {d \in AllDiscounts : min_discount(base) <= d /\ d <= max_discount(base)}
    IN  {p \in D \X D : p[1] <= p[2]}

QuantityRangeOptions(base) ==
    LET Q == min_qty(base)..max_qty(base)
    IN  {p \in Q \X Q : p[1] <= p[2]}

\* the widget values of the first run
Defaults(base) ==
    [date_range |-> <<min_date(base), max_date(base)>>,
     selected_locations |-> all_locations(base),
     selected_channel |-> "All",
     selected_categories |-> all_categories(base),
     selected_segments |-> all_segments(base),
     discount_range |-> <<min_discount(base), max_discount(base)>>,
     quantity_range |-> <<min_qty(base), max_qty(base)>>,
     high_value_threshold |-> DefaultThreshold,
     show_high_value_only |-> FALSE]

WidgetNames ==
    {"date_range", "selected_locations", "selected_channel",
     "selected_categories", "selected_segments", "discount_range",
     "quantity_range", "high_value_threshold", "show_high_value_only"}

\* number of widgets that are away from their default
ActiveCount(w, base) ==
    LET d == Defaults(base)
    IN  Cardinality({f \in WidgetNames : w[f] # d[f]})

\* "Handle single date selection"
StartDate(date_range) == date_range[1]
EndDate(date_range) == IF Len(date_range) = 2 THEN date_range[2] ELSE date_range[1]

\* ------------------------------------------------------------------------
\* Group-by helpers (pandas groupby over the rows of a frame)
\* ------------------------------------------------------------------------
GroupKeys(rows, key) == Range(Column(rows, key))

GroupRows(rows, key, k) == SelectSeq(rows, LAMBDA r : r[key] = k)

\* groupby(key)[col].agg('first'): the first value of each group
GroupFirst(rows, key, col) ==
    [k \in GroupKeys(rows, key) |-> GroupRows(rows, key, k)[1][col]]

\* groupby(key)[col].sum()
GroupSum(rows, key, col) ==
    [k \in GroupKeys(rows, key) |-> SumSeq(Column(GroupRows(rows, key, k), col))]

\* len(series): the number of values, repeated ones included
CountValues(rows, col) == Len(rows)

\* series.nunique()
NUnique(rows, col) == Cardinality(Range(Column(rows, col)))

\* groupby(key)[col].nunique()
GroupNUnique(rows, key, col) ==
    [k \in GroupKeys(rows, key) |-> NUnique(GroupRows(rows, key, k), col)]

\* a groupby result with integer keys as the sequence of its values in
\* ascending key order (sort_index / sort_values on the key)
SortedValues(g) == LET ks == SortedSeq(DOMAIN g) IN [i \in DOMAIN ks |-> g[ks[i]]]

\* ------------------------------------------------------------------------
\* APPLY FILTERS
\* ------------------------------------------------------------------------
\* variant: the frame the previous run filtered is filtered again
StaleFrame(orig, previous) == previous

\* df_original.copy(): a fresh frame of the loaded rows; nothing of the frame
\* the previous run filtered is carried over
FreshCopy(orig, previous) == orig

\* variant: the end of the date range taken as exclusive
DateFilterOpenEnd(rows, sd, ed) ==
    SelectSeq(rows, LAMBDA r : r.date >= sd /\ r.date < ed)

DateFilter(rows, sd, ed) ==
    SelectSeq(rows, LAMBDA r : r.date >= sd /\ r.date <= ed)

\* variant: no "if selected_locations" guard
LocationFilterNoGuard(rows, locs) ==
    SelectSeq(rows, LAMBDA r : r.store_location \in locs)

LocationFilter(rows, locs) ==
    IF locs # {} THEN SelectSeq(rows, LAMBDA r : r.store_location \in locs) ELSE rows

\* variant: the channel mask applied only when some row matches it
ChannelFilterIfAnyMatch(rows, chan) ==
    IF chan # "All" /\ \E i \in DOMAIN rows : rows[i].channel = chan
    THEN SelectSeq(rows, LAMBDA r : r.channel = chan) ELSE rows

ChannelFilter(rows, chan) ==
    IF chan # "All" THEN SelectSeq(rows, LAMBDA r : r.channel = chan) ELSE rows

CategoryFilter(rows, cats) ==
    IF cats # {} THEN SelectSeq(rows, LAMBDA r : r.product_category \in cats) ELSE rows

SegmentFilter(rows, segs) ==
    IF segs # {} THEN SelectSeq(rows, LAMBDA r : r.customer_segment \in segs) ELSE rows

DiscountFilter(rows, rng) ==
    SelectSeq(rows, LAMBDA r : r.discount_applied >= rng[1] /\ r.discount_applied <= rng[2])

\* variant: the quantity mask negated
QuantityFilterNegated(rows, rng) ==
    SelectSeq(rows, LAMBDA r : ~(r.quantity >= rng[1] /\ r.quantity <= rng[2]))

QuantityFilter(rows, rng) ==
    SelectSeq(rows, LAMBDA r : r.quantity >= rng[1] /\ r.quantity <= rng[2])

\* variant: the threshold applied to each row's own line_revenue
HighValueRows(rows, enabled, threshold) ==
    IF enabled THEN SelectSeq(rows, LAMBDA r : r.line_revenue >= threshold) ELSE rows

HighValueFilter(rows, enabled, threshold) ==
    IF enabled
    THEN LET customer_revenue == GroupSum(rows, "customer_id", "line_revenue")
             high_value_customers ==
                 {c \in DOMAIN customer_revenue : customer_revenue[c] >= threshold}
         IN  SelectSeq(rows, LAMBDA r : r.customer_id \in high_value_customers)
    ELSE rows

\* the predicates before the high-value one, in the order of the script
BasicFilters(rows, w) ==
    LET d1 == DateFilter(rows, StartDate(w.date_range), EndDate(w.date_range))
        d2 == LocationFilter(d1, w.selected_locations)
        d3 == ChannelFilter(d2, w.selected_channel)
        d4 == CategoryFilter(d3, w.selected_categories)
        d5 == SegmentFilter(d4, w.selected_segments)
        d6 == DiscountFilter(d5, w.discount_range)
    IN  QuantityFilter(d6, w.quantity_range)

\* variant: the high-value filter run on the unfiltered rows, the other
\* predicates after it
ApplyFiltersHighValueFirst(rows, w) ==
    BasicFilters(HighValueFilter(rows, w.show_high_value_only,
                                 w.high_value_threshold), w)

ApplyFilters(rows, w) ==
    HighValueFilter(BasicFilters(rows, w), w.show_high_value_only,
                    w.high_value_threshold)

\* variant: the filters applied to df_original itself
SourceFilteredInPlace(orig, view) == view

\* the filters rebind df to new frames (boolean indexing); df_original is
\* what it was before them
SourceAfterFilters(orig, view) == orig

\* ------------------------------------------------------------------------
\* Empty check, KPIs, insights
\* ------------------------------------------------------------------------
\* variant: no empty check, the script always runs on
NeverStops(view) == FALSE

\* "if len(df) == 0: st.warning(...); st.stop()"
IsEmptyView(view) == Len(view) = 0

total_revenue(view) == SumSeq(Column(view, "line_revenue"))
total_bills(view) == NUnique(view, "bill_id")
unique_customers(view) == NUnique(view, "customer_id")

avg_order_value(view) ==
    IF total_bills(view) > 0
    THEN Divide(total_revenue(view), total_bills(view)) ELSE Zero

avg_customer_value(view) ==
    IF unique_customers(view) > 0
    THEN Divide(total_revenue(view), unique_customers(view)) ELSE Zero

monthly_revenue(view) == SortedValues(GroupSum(view, "month", "line_revenue"))

monthly_growth(view) ==
    LET series == monthly_revenue(view)
        n == Len(series)
    IN  IF n >= 2
        THEN (IF series[n - 1] > 0
              THEN Times100(Divide(series[n] - series[n - 1], series[n - 1]))
              ELSE Zero)
        ELSE Zero

repeat_rate(view) ==
    LET customer_orders == GroupNUnique(view, "customer_id", "bill_id")
        repeat_customers ==
            Cardinality({c \in DOMAIN customer_orders : customer_orders[c] > 1})
        total_customers == Cardinality(DOMAIN customer_orders)
    IN  IF total_customers > 0
        THEN Times100(Divide(repeat_customers, total_customers)) ELSE Zero

high_value_count(view, threshold) ==
    LET customer_revenue == GroupSum(view, "customer_id", "line_revenue")
    IN  Cardinality({c \in DOMAIN customer_revenue : customer_revenue[c] >= threshold})

quarterly_revenue(view) == SortedValues(GroupSum(view, "quarter", "line_revenue"))

qoq_growth(view) ==
    LET series == quarterly_revenue(view)
        n == Len(series)
    IN  IF n >= 2
        THEN (IF series[n - 1] > 0
              THEN Times100(Divide(series[n] - series[n - 1], series[n - 1]))
              ELSE Zero)
        ELSE Zero

\* Series.idxmax() raises ValueError on an empty series
IdxMaxRaises(series) == DOMAIN series = {}

\* how the run ends: stopped at the empty check, an uncaught exception in
\* the insights section, or the page rendered to the end
RunStatus(view) ==
    IF IsEmptyView(view) THEN "stopped"
    ELSE IF IdxMaxRaises(GroupSum(view, "store_location", "line_revenue"))
            \/ IdxMaxRaises(GroupSum(view, "product_category", "line_revenue"))
            \/ IdxMaxRaises(GroupSum(view, "channel", "line_revenue"))
            \/ IdxMaxRaises(GroupSum(view, "customer_segment", "line_revenue"))
         THEN "error"
         ELSE "rendered"

\* nothing is computed after st.stop()
NoKpi == [computed |-> FALSE]

Kpis(view, threshold) ==
    IF IsEmptyView(view) THEN NoKpi
    ELSE [computed |-> TRUE,
          total_revenue |-> total_revenue(view),
          total_bills |-> total_bills(view),
          unique_customers |-> unique_customers(view),
          avg_order_value |-> avg_order_value(view),
          avg_customer_value |-> avg_customer_value(view),
          monthly_growth |-> monthly_growth(view),
          repeat_rate |-> repeat_rate(view),
          high_value_count |-> high_value_count(view, threshold),
          qoq_growth |-> qoq_growth(view)]

\* ------------------------------------------------------------------------
\* Rankings: top customers, product Pareto
\* ------------------------------------------------------------------------
\* .head(10) of the customer table, .head(20) of the product series
TopCustomers == 10
TopProducts == 20

\* series.head(n)
HeadN(s, n) == SubSeq(s, 1, IF Len(s) < n THEN Len(s) ELSE n)

\* sort_values(ascending=False) of a groupby result g over the keys left:
\* the default sort kind is quicksort, which is not stable, so keys of equal
\* value may come out in either order; every order it can produce is an
\* outcome
RECURSIVE SortValuesDescending(_, _)
SortValuesDescending(g, keys) ==
    IF keys = {} THEN {<<>>}
    ELSE LET top == {k \in keys : \A j \in keys : g[k] >= g[j]}
         IN  UNION {{<<[key |-> k, value |-> g[k]]>> \o t :
                        t \in SortValuesDescending(g, keys \ {k})} : k \in top}

\* df.groupby('product_name')['line_revenue'].sum().sort_values(ascending=False)
ProductRevenueOutcomes(view) ==
    LET g == GroupSum(view, "product_name", "line_revenue")
    IN  SortValuesDescending(g, DOMAIN g)

\* variant: the running total left out, each product's own revenue kept
OwnRevenue(series) == [i \in DOMAIN series |-> series[i].value]

\* product_revenue.cumsum()
product_revenue_cumsum(series) ==
    [i \in DOMAIN series |-> SumSeq([j \in 1..i |-> series[j].value])]

\* product_revenue_cumsum / product_revenue.sum() * 100
product_revenue_pct(series) ==
    LET cumsum == product_revenue_cumsum(series)
        total == SumSeq([j \in DOMAIN series |-> series[j].value])
    IN  [i \in DOMAIN series |-> Times100(Divide(cumsum[i], total))]

\* groupby('customer_id').agg(sum, nunique, first), sorted by 'Total Revenue'
\* descending, .head(10)
CustomerStatsOutcomes(view) ==
    LET g == GroupSum(view, "customer_id", "line_revenue")
    IN  {HeadN(s, TopCustomers) : s \in SortValuesDescending(g, DOMAIN g)}

\* ------------------------------------------------------------------------
\* Day-of-week heatmap
\* ------------------------------------------------------------------------
\* groupby(['day_of_week', 'store_location'])['line_revenue'].sum(), pivoted:
\* the sum of a (day, store) pair that has rows, nan for a pair that has none
PivotCell(view, d, s) ==
    LET rs == SelectSeq(view, LAMBDA r : r.day_of_week = d /\ r.store_location = s)
    IN  IF rs = <<>> THEN NaN ELSE <<SumSeq(Column(rs, "line_revenue")), 1>>

\* .fillna(v) on one cell
FillNa(q, v) == IF q = NaN THEN v ELSE q

\* .reindex(day_order): the rows in the order Monday..Sunday; a label that is
\* not in the index gets a row of nan
Reindex(filled, index, columns) ==
    [i \in DOMAIN day_order |->
        IF day_order[i] \in index THEN filled[day_order[i]]
        ELSE [s \in columns |-> NaN]]

\* heatmap_pivot: pivot, then fillna(0), then reindex(day_order); row i is
\* the weekday day_order[i]
heatmap_pivot(view) ==
    LET index == Range(Column(view, "day_of_week"))
        columns == Range(Column(view, "store_location"))
        filled == [d \in index |->
                      [s \in columns |-> FillNa(PivotCell(view, d, s), Zero)]]
    IN  Reindex(filled, index, columns)

\* ------------------------------------------------------------------------
\* Per-group ratios and insights
\* ------------------------------------------------------------------------
\* the labels of the catalogue in the order Python compares strings (the
\* order groupby leaves its keys in)
LabelOrder ==
    <<"Beverages", "Chips", "Cola", "Downtown", "In-store", "Juice", "Loyal",
      "New", "Online", "Snacks", "Uptown", "X", "Y">>

LabelRank(k) == CHOOSE i \in DOMAIN LabelOrder : LabelOrder[i] = k

\* a <= b for two quotients (inf and -inf included)
QuotientLeq(a, b) == a[1] * b[2] <= b[1] * a[2]

\* variant: the sum divided by the number of repeated values of the column
GroupRatioOverRepeats(rows, key, num, den) ==
    LET total == GroupSum(rows, key, num)
    IN  [k \in GroupKeys(rows, key) |->
            Divide(total[k], Len(GroupRows(rows, key, k))
                                - NUnique(GroupRows(rows, key, k), den))]

\* groupby(key).agg({num: 'sum', den: 'nunique'}), then sum / nunique
GroupRatio(rows, key, num, den) ==
    LET total == GroupSum(rows, key, num)
        count == GroupNUnique(rows, key, den)
    IN  [k \in GroupKeys(rows, key) |-> Divide(total[k], count[k])]

store_aov(view) == GroupRatio(view, "store_location", "line_revenue", "bill_id")
quarterly_aov(view) == GroupRatio(view, "quarter", "line_revenue", "bill_id")
channel_aov(view) == GroupRatio(view, "channel", "line_revenue", "bill_id")
segment_value(view) == GroupRatio(view, "customer_segment", "line_revenue", "customer_id")

\* variant: the label of the smallest value
IdxMinOfSorted(g) == {k \in DOMAIN g : \A j \in DOMAIN g : g[k] <= g[j]}

\* idxmax() of a series that sort_values has ordered: the first label of the
\* largest value, which among equal values is any of them (unstable sort)
IdxMaxOfSorted(g) == {k \in DOMAIN g : \A j \in DOMAIN g : g[k] >= g[j]}

\* idxmax() of a groupby result of quotients: nan is skipped, the first label
\* in key order among the largest values
IdxMax(g) ==
    LET valid == {k \in DOMAIN g : g[k] # NaN}
        largest == {k \in valid : \A j \in valid : QuotientLeq(g[j], g[k])}
    IN  IF largest = {} THEN "nan"
        ELSE CHOOSE k \in largest : \A j \in largest : LabelRank(k) <= LabelRank(j)

\* nothing is computed when the run did not reach the insights
NoInsights == [computed |-> FALSE]

\* "Auto-generated Insights": best store and category by revenue, best
\* channel by AOV, best segment by revenue per customer
InsightsOutcomes(view) ==
    IF RunStatus(view) # "rendered" THEN {NoInsights}
    ELSE LET revenue_by_store == GroupSum(view, "store_location", "line_revenue")
             revenue_by_category == GroupSum(view, "product_category", "line_revenue")
             aov == channel_aov(view)
             acv == segment_value(view)
             best_channel == IdxMax(aov)
             best_segment == IdxMax(acv)
         IN  {[computed |-> TRUE,
               best_store |-> bs,
               best_store_revenue |-> revenue_by_store[bs],
               best_category |-> bc,
               best_category_revenue |-> revenue_by_category[bc],
               best_channel |-> best_channel,
               best_channel_aov |-> IF best_channel = "nan" THEN NaN ELSE aov[best_channel],
               best_segment |-> best_segment,
               best_segment_acv |-> IF best_segment = "nan" THEN NaN ELSE acv[best_segment]] :
                  bs \in IdxMaxOfSorted(revenue_by_store),
                  bc \in IdxMaxOfSorted(revenue_by_category)}

\* ------------------------------------------------------------------------
\* State
\* ------------------------------------------------------------------------
VARIABLES
    csv,                    \* the input file urbanmart_sales.csv
    df_original,            \* the loaded table
    date_range, selected_locations, selected_channel, selected_categories,
    selected_segments, discount_range, quantity_range, high_value_threshold,
    show_high_value_only,   \* the sidebar widgets
    df,                     \* the filtered view of the last run
    status,                 \* how the last run ended
    kpi,                    \* the KPIs of the last run
    product_revenue,        \* product revenue series of the last run
    customer_stats,         \* top-customer table of the last run
    insights,               \* the insights of the last run
    pending,                \* the filters a run under way has still to apply
    hv_early                \* the run applied a predicate after the high-value one

vars == <<csv, df_original, date_range, selected_locations, selected_channel,
          selected_categories, selected_segments, discount_range,
          quantity_range, high_value_threshold, show_high_value_only,
          df, status, kpi, product_revenue, customer_stats, insights,
          pending, hv_early>>

Widgets ==
    [date_range |-> date_range,
     selected_locations |-> selected_locations,
     selected_channel |-> selected_channel,
     selected_categories |-> selected_categories,
     selected_segments |-> selected_segments,
     discount_range |-> discount_range,
     quantity_range |-> quantity_range,
     high_value_threshold |-> high_value_threshold,
     show_high_value_only |-> show_high_value_only]

\* one execution of the script with the widget values w
Rerun(w) ==
    /\ csv' = csv
    /\ date_range' = w.date_range
    /\ selected_locations' = w.selected_locations
    /\ selected_channel' = w.selected_channel
    /\ selected_categories' = w.selected_categories
    /\ selected_segments' = w.selected_segments
    /\ discount_range' = w.discount_range
    /\ quantity_range' = w.quantity_range
    /\ high_value_threshold' = w.high_value_threshold
    /\ show_high_value_only' = w.show_high_value_only
    /\ df' = ApplyFilters(FreshCopy(load_and_process_data(csv), df), w)
    /\ df_original' = SourceAfterFilters(load_and_process_data(csv), df')
    /\ status' = RunStatus(df')
    /\ kpi' = Kpis(df', high_value_threshold')
    /\ customer_stats' \in CustomerStatsOutcomes(df')
    /\ product_revenue' \in ProductRevenueOutcomes(df')
    /\ insights' \in InsightsOutcomes(df')
    /\ pending' = {}
    /\ hv_early' = FALSE

\* the first run: the file is loaded, every widget has its default
Init ==
    /\ csv \in RawTables
    /\ df_original = load_and_process_data(csv)
    /\ LET w == Defaults(df_original)
           view == ApplyFilters(df_original, w)
       IN  /\ date_range = w.date_range
           /\ selected_locations = w.selected_locations
           /\ selected_channel = w.selected_channel
           /\ selected_categories = w.selected_categories
           /\ selected_segments = w.selected_segments
           /\ discount_range = w.discount_range
           /\ quantity_range = w.quantity_range
           /\ high_value_threshold = w.high_value_threshold
           /\ show_high_value_only = w.show_high_value_only
           /\ df = view
           /\ status = RunStatus(view)
           /\ kpi = Kpis(view, w.high_value_threshold)
           /\ customer_stats \in CustomerStatsOutcomes(view)
           /\ product_revenue \in ProductRevenueOutcomes(view)
           /\ insights \in InsightsOutcomes(view)
           /\ pending = {}
           /\ hv_early = FALSE

\* the user changes widget f to value v and the script runs again
Change(f, v) ==
    LET old == Widgets
        w == [old EXCEPT ![f] = v]
    IN  /\ v # old[f]
        /\ ActiveCount(w, df_original) <= MaxActiveFilters
        /\ Rerun(w)

SetDateRange ==
    \E v \in DateRangeOptions(df_original) : Change("date_range", v)

SetLocations ==
    \E v \in SUBSET all_locations(df_original) : Change("selected_locations", v)

SetChannel ==
    \E v \in ChannelOptions : Change("selected_channel", v)

SetCategories ==
    \E v \in SUBSET all_categories(df_original) : Change("selected_categories", v)

SetSegments ==
    \E v \in SUBSET all_segments(df_original) : Change("selected_segments", v)

SetDiscountRange ==
    \E v \in DiscountRangeOptions(df_original) : Change("discount_range", v)

SetQuantityRange ==
    \E v \in QuantityRangeOptions(df_original) : Change("quantity_range", v)

SetThreshold ==
    \E v \in ThresholdChoices : Change("high_value_threshold", v)

ToggleHighValue ==
    Change("show_high_value_only", ~show_high_value_only)

Next ==
    \/ SetDateRange
    \/ SetLocations
    \/ SetChannel
    \/ SetCategories
    \/ SetSegments
    \/ SetDiscountRange
    \/ SetQuantityRange
    \/ SetThreshold
    \/ ToggleHighValue

Spec == Init /\ [][Next]_vars

\* ------------------------------------------------------------------------
\* The filters of one run, applied one at a time in any order
\* ------------------------------------------------------------------------
BasicFilterNames ==
    {"date", "location", "channel", "category", "segment", "discount", "quantity"}

FilterNames == BasicFilterNames \cup {"high_value"}

\* the widget each basic filter reads
WidgetOf ==
    [date |-> "date_range", location |-> "selected_locations",
     channel |-> "selected_channel", category |-> "selected_categories",
     segment |-> "selected_segments", discount |-> "discount_range",
     quantity |-> "quantity_range"]

FirstLabel(S) == CHOOSE k \in S : \A j \in S : LabelRank(k) <= LabelRank(j)
LastLabel(S) == CHOOSE k \in S : \A j \in S : LabelRank(k) >= LabelRank(j)

\* two restrictive values of each widget: the low end and the high end of
\* its options
Narrowed(base, low) ==
    [date_range |-> IF low THEN <<min_date(base)>> ELSE <<max_date(base), max_date(base)>>,
     selected_locations |->
        {IF low THEN FirstLabel(all_locations(base)) ELSE LastLabel(all_locations(base))},
     selected_channel |-> IF low THEN "In-store" ELSE "Online",
     selected_categories |->
        {IF low THEN FirstLabel(all_categories(base)) ELSE LastLabel(all_categories(base))},
     selected_segments |->
        {IF low THEN FirstLabel(all_segments(base)) ELSE LastLabel(all_segments(base))},
     discount_range |-> IF low THEN <<min_discount(base), min_discount(base)>>
                        ELSE <<max_discount(base), max_discount(base)>>,
     quantity_range |-> IF low THEN <<min_qty(base), min_qty(base)>>
                        ELSE <<max_qty(base), max_qty(base)>>,
     high_value_threshold |-> DefaultThreshold,
     show_high_value_only |-> TRUE]

\* criteria with the high-value filter on and at most MaxActiveFilters of the
\* other widgets narrowed
OrderCriteria(base) ==
    {[f \in WidgetNames |->
        IF f \in {"high_value_threshold", "show_high_value_only"}
           \/ \E n \in N : WidgetOf[n] = f
        THEN Narrowed(base, low)[f] ELSE Defaults(base)[f]] :
            N \in {M \in SUBSET BasicFilterNames : Cardinality(M) <= MaxActiveFilters},
            low \in BOOLEAN}

\* a run that starts with the fresh copy of a file of MaxRows lines and has
\* every filter still to apply
InitOrder ==
    /\ csv \in {t \in RawTables : Len(t) = MaxRows}
    /\ df_original = load_and_process_data(csv)
    /\ \E w \in OrderCriteria(df_original) :
           /\ date_range = w.date_range
           /\ selected_locations = w.selected_locations
           /\ selected_channel = w.selected_channel
           /\ selected_categories = w.selected_categories
           /\ selected_segments = w.selected_segments
           /\ discount_range = w.discount_range
           /\ quantity_range = w.quantity_range
           /\ high_value_threshold = w.high_value_threshold
           /\ show_high_value_only = w.show_high_value_only
    /\ df = FreshCopy(df_original, <<>>)
    /\ status = "filtering"
    /\ kpi = NoKpi
    /\ customer_stats = <<>>
    /\ product_revenue = <<>>
    /\ insights = NoInsights
    /\ pending = FilterNames
    /\ hv_early = FALSE

\* the run applies filter name, which leaves the view filtered
Apply(name, filtered) ==
    /\ name \in pending
    /\ df' = filtered
    /\ pending' = pending \ {name}
    /\ hv_early' = (hv_early \/ (name # "high_value" /\ "high_value" \notin pending))
    /\ UNCHANGED <<csv, df_original, date_range, selected_locations,
                   selected_channel, selected_categories, selected_segments,
                   discount_range, quantity_range, high_value_threshold,
                   show_high_value_only, status, kpi, product_revenue,
                   customer_stats, insights>>

ApplyDate == Apply("date", DateFilter(df, StartDate(date_range), EndDate(date_range)))
ApplyLocation == Apply("location", LocationFilter(df, selected_locations))
ApplyChannel == Apply("channel", ChannelFilter(df, selected_channel))
ApplyCategory == Apply("category", CategoryFilter(df, selected_categories))
ApplySegment == Apply("segment", SegmentFilter(df, selected_segments))
ApplyDiscount == Apply("discount", DiscountFilter(df, discount_range))
ApplyQuantity == Apply("quantity", QuantityFilter(df, quantity_range))
ApplyHighValue ==
    Apply("high_value", HighValueFilter(df, show_high_value_only, high_value_threshold))

NextOrder ==
    \/ ApplyDate
    \/ ApplyLocation
    \/ ApplyChannel
    \/ ApplyCategory
    \/ ApplySegment
    \/ ApplyDiscount
    \/ ApplyQuantity
    \/ ApplyHighValue

SpecOrder == InitOrder /\ [][NextOrder]_vars

\* ------------------------------------------------------------------------
\* The filters as a function of a criteria object
\* ------------------------------------------------------------------------
\* criteria handed to the filters as they are: the defaults with any two
\* values of the column as the date, discount and quantity range, in either
\* order (the filters read the pairs without checking them)
CriteriaObjects(base) ==
    LET dates == Range(Column(base, "date"))
        discounts == Range(Column(base, "discount_applied"))
        quantities == Range(Column(base, "quantity"))
    IN  {[Defaults(base) EXCEPT !.date_range = d, !.discount_range = x,
                                !.quantity_range = q] :
            d \in dates \X dates, x \in discounts \X discounts,
            q \in quantities \X quantities}

InitCriteria ==
    /\ csv \in RawTables
    /\ df_original = load_and_process_data(csv)
    /\ \E w \in CriteriaObjects(df_original) :
           /\ date_range = w.date_range
           /\ selected_locations = w.selected_locations
           /\ selected_channel = w.selected_channel
           /\ selected_categories = w.selected_categories
           /\ selected_segments = w.selected_segments
           /\ discount_range = w.discount_range
           /\ quantity_range = w.quantity_range
           /\ high_value_threshold = w.high_value_threshold
           /\ show_high_value_only = w.show_high_value_only
    /\ df = FreshCopy(df_original, <<>>)
    /\ status = "filtering"
    /\ kpi = NoKpi
    /\ customer_stats = <<>>
    /\ product_revenue = <<>>
    /\ insights = NoInsights
    /\ pending = FilterNames
    /\ hv_early = FALSE

\* the script from the filters on, run with the criteria as given
RunFilters ==
    /\ pending = FilterNames
    /\ Rerun(Widgets)

SpecCriteria == InitCriteria /\ [][RunFilters]_vars

\* ------------------------------------------------------------------------
\* Properties
\* ------------------------------------------------------------------------
\* the predicates other than the high-value one, on one base row; an empty
\* selection and the channel "All" are inactive predicates
SatisfiesBasic(r) ==
    /\ StartDate(date_range) <= r.date /\ r.date <= EndDate(date_range)
    /\ (selected_locations # {} => r.store_location \in selected_locations)
    /\ (selected_channel # "All" => r.channel = selected_channel)
    /\ (selected_categories # {} => r.product_category \in selected_categories)
    /\ (selected_segments # {} => r.customer_segment \in selected_segments)
    /\ discount_range[1] <= r.discount_applied
    /\ r.discount_applied <= discount_range[2]
    /\ quantity_range[1] <= r.quantity /\ r.quantity <= quantity_range[2]

\* positions of the base rows of customer c that satisfy SatisfiesBasic
BasicRowsOf(c) ==
    {i \in DOMAIN df_original :
        df_original[i].customer_id = c /\ SatisfiesBasic(df_original[i])}

\* total line_revenue of customer c over the rows that satisfy SatisfiesBasic
BasicTotalOf(c) ==
    SumSet([i \in DOMAIN df_original |-> df_original[i].line_revenue], BasicRowsOf(c))

SatisfiesAll(r) ==
    /\ SatisfiesBasic(r)
    /\ (show_high_value_only => BasicTotalOf(r.customer_id) >= high_value_threshold)

\* positions of the base rows of customer c that are in the filtered view
KeptRowsOf(c) ==
    {i \in DOMAIN df_original :
        df_original[i].customer_id = c /\ df_original[i] \in Range(df)}

\* C1: the filtered view is exactly the base rows (in base order, each once)
\* that satisfy all active predicates at once: none that satisfies them is
\* dropped, none that fails one is kept.
C1_ViewIsConjunctionOfPredicates ==
    df = SelectSeq(df_original, SatisfiesAll)

\* C1 witness: two predicates are active and the view is a proper, non-empty
\* part of the base table
C1_Witness ==
    /\ selected_channel # "All"
    /\ selected_locations # {}
    /\ selected_locations # all_locations(df_original)
    /\ Len(df) > 0
    /\ Len(df) < Len(df_original)
    /\ C1_ViewIsConjunctionOfPredicates

\* C2: with highValueOnly enabled, a customer's total is taken over the rows
\* that passed every other predicate, and the view keeps all of those rows
\* when the total is >= the threshold and none of them otherwise.
C2_HighValueOverFilteredRows ==
    show_high_value_only =>
        \A c \in GroupKeys(df_original, "customer_id") :
            KeptRowsOf(c) =
                IF BasicTotalOf(c) >= high_value_threshold
                THEN BasicRowsOf(c) ELSE {}

\* C2 witness: threshold 100, one customer whose two filtered rows sum to 120
\* keeps both, another whose single filtered row is 50 loses it
C2_Witness ==
    /\ show_high_value_only
    /\ high_value_threshold = 100
    /\ \E x, y \in GroupKeys(df_original, "customer_id") :
          /\ Cardinality(BasicRowsOf(x)) = 2
          /\ BasicTotalOf(x) = 120
          /\ KeptRowsOf(x) = BasicRowsOf(x)
          /\ Cardinality(BasicRowsOf(y)) = 1
          /\ BasicTotalOf(y) = 50
          /\ KeptRowsOf(y) = {}

\* a step that tightens the criteria: every range is within the old one,
\* every selection is a subset of the old one, the rest is unchanged (a step
\* changes one widget, so this is the tightening of a single bound)
Tightening ==
    /\ StartDate(date_range') >= StartDate(date_range)
    /\ EndDate(date_range') <= EndDate(date_range)
    /\ selected_locations' \subseteq selected_locations
    /\ selected_categories' \subseteq selected_categories
    /\ selected_segments' \subseteq selected_segments
    /\ discount_range'[1] >= discount_range[1]
    /\ discount_range'[2] <= discount_range[2]
    /\ quantity_range'[1] >= quantity_range[1]
    /\ quantity_range'[2] <= quantity_range[2]
    /\ selected_channel' = selected_channel
    /\ high_value_threshold' = high_value_threshold
    /\ show_high_value_only' = show_high_value_only

\* no selection is emptied by the step
NoSelectionEmptied ==
    /\ (selected_locations' = {} => selected_locations = {})
    /\ (selected_categories' = {} => selected_categories = {})
    /\ (selected_segments' = {} => selected_segments = {})

NoNegativeRevenue ==
    \A i \in DOMAIN df_original : df_original[i].line_revenue >= 0

\* C3 as stated: tightening any single filter bound, selections emptied and
\* highValueOnly enabled included, never increases the number of rows of the
\* filtered view.
C3_TighteningNeverAddsRows ==
    [][Tightening => Len(df') <= Len(df)]_vars

\* C3 amended: tightening a single filter bound never increases the number
\* of rows of the filtered view when no selection is emptied by it and
\* either highValueOnly is disabled or no base row has a negative
\* line_revenue.
C3_TighteningNeverAddsRowsAmended ==
    [][(/\ Tightening
        /\ NoSelectionEmptied
        /\ (show_high_value_only => NoNegativeRevenue))
       => Len(df') <= Len(df)]_vars

\* C3 witness: highValueOnly is enabled over a base table without negative
\* revenue, a range and a selection are tightened below their defaults, and
\* rows have been removed
C3_Witness ==
    /\ show_high_value_only
    /\ NoNegativeRevenue
    /\ \/ discount_range # Defaults(df_original).discount_range
       \/ /\ selected_categories # {}
          /\ selected_categories # all_categories(df_original)
    /\ Len(df) < Len(df_original)

\* the predicates other than the high-value one and other than the
\* selection widget skip, on one base row
BasicWithout(r, skip) ==
    /\ StartDate(date_range) <= r.date /\ r.date <= EndDate(date_range)
    /\ (skip # "selected_locations" /\ selected_locations # {}
          => r.store_location \in selected_locations)
    /\ (selected_channel # "All" => r.channel = selected_channel)
    /\ (skip # "selected_categories" /\ selected_categories # {}
          => r.product_category \in selected_categories)
    /\ (skip # "selected_segments" /\ selected_segments # {}
          => r.customer_segment \in selected_segments)
    /\ discount_range[1] <= r.discount_applied
    /\ r.discount_applied <= discount_range[2]
    /\ quantity_range[1] <= r.quantity /\ r.quantity <= quantity_range[2]

\* all predicates but the selection widget skip, on one base row
AllWithout(r, skip) ==
    /\ BasicWithout(r, skip)
    /\ show_high_value_only =>
          LET mine == {i \in DOMAIN df_original :
                          /\ df_original[i].customer_id = r.customer_id
                          /\ BasicWithout(df_original[i], skip)}
          IN  SumSet([i \in DOMAIN df_original |-> df_original[i].line_revenue],
                     mine) >= high_value_threshold

SelectionWidgets == {"selected_locations", "selected_categories", "selected_segments"}

\* C4: an empty storeLocations (categories, segments) selection removes no
\* row on that dimension: the view is the one of the other predicates alone,
\* and the whole base table when every other widget is at its unrestrictive
\* default.
C4_EmptySelectionKeepsAll ==
    \A f \in SelectionWidgets :
        Widgets[f] = {} =>
            /\ df = SelectSeq(df_original, LAMBDA r : AllWithout(r, f))
            /\ (\A g \in WidgetNames \ {f} : Widgets[g] = Defaults(df_original)[g])
                  => df = df_original

\* C4 witness: the store selection is empty, the base table has two stores,
\* another predicate is active and rows of both stores are in the view
C4_Witness ==
    /\ selected_locations = {}
    /\ selected_channel # "All"
    /\ Cardinality(all_locations(df_original)) = 2
    /\ GroupKeys(df, "store_location") = all_locations(df_original)

\* C5: after any sequence of widget changes, the filtered view and the
\* derived aggregates are those of the current criteria applied to the base
\* table, whatever was applied before.
C5_ViewIsFunctionOfCurrentCriteria ==
    /\ df = ApplyFilters(df_original, Widgets)
    /\ status = RunStatus(ApplyFilters(df_original, Widgets))
    /\ kpi = Kpis(ApplyFilters(df_original, Widgets), high_value_threshold)

\* C5 witness: the criteria were changed and the view of the current
\* criteria is a proper, non-empty part of the base table
C5_Witness ==
    /\ Widgets # Defaults(df_original)
    /\ Len(df) > 0
    /\ Len(df) < Len(df_original)
    /\ kpi.computed

\* C6: the base table is what the load produced, whatever filters and
\* aggregations have run since.
C6_BaseTableUnchanged ==
    df_original = load_and_process_data(csv)

\* C6 witness: filters have run and removed rows from the view, the base
\* table has all its rows
C6_Witness ==
    /\ Widgets # Defaults(df_original)
    /\ Len(df) < Len(df_original)
    /\ Len(df_original) = Len(csv)

GroupingKeys == {"store_location", "product_category", "customer_segment",
                 "channel", "product_name", "month", "quarter"}

\* C7: for every grouping key, the per-group line_revenue sums add up to the
\* line_revenue sum of the filtered view (the total revenue KPI), and the
\* group sizes add up to the number of filtered rows.
C7_GroupSumsAddUpToTotal ==
    \A key \in GroupingKeys :
        LET g == GroupSum(df, key, "line_revenue")
            size == [k \in GroupKeys(df, key) |-> Len(GroupRows(df, key, k))]
        IN  /\ SumSet(g, DOMAIN g) = SumSeq(Column(df, "line_revenue"))
            /\ SumSet(size, DOMAIN size) = Len(df)
            /\ kpi.computed => SumSet(g, DOMAIN g) = kpi.total_revenue

\* C7 witness: the view has two stores, one of them with several rows
C7_Witness ==
    /\ status = "rendered"
    /\ Cardinality(GroupKeys(df, "store_location")) = 2
    /\ \E k \in GroupKeys(df, "store_location") :
          Len(GroupRows(df, "store_location", k)) >= 2

\* C8: on an empty filtered view the script stops at the empty check, so no
\* later operation raises, and every KPI expression evaluates to its zero
\* fallback (AOV, average customer value, repeat rate, monthly and quarterly
\* growth are 0; so are the revenue and the counts).
C8_EmptyViewIsSafe ==
    Len(df) = 0 =>
        /\ status = "stopped"
        /\ kpi = NoKpi
        /\ total_revenue(df) = 0
        /\ total_bills(df) = 0
        /\ unique_customers(df) = 0
        /\ high_value_count(df, high_value_threshold) = 0
        /\ avg_order_value(df) = Zero
        /\ avg_customer_value(df) = Zero
        /\ repeat_rate(df) = Zero
        /\ monthly_growth(df) = Zero
        /\ qoq_growth(df) = Zero

\* C8 witness: the filters have removed every row of a non-empty base table
C8_Witness ==
    /\ Len(df) = 0
    /\ Len(df_original) > 0
    /\ status = "stopped"

\* positions of the base rows that are in the filtered view
KeptRows == {i \in DOMAIN df_original : df_original[i] \in Range(df)}

\* C9: total revenue is the sum over the filtered rows of
\* quantity * unit_price - discount_applied, the transaction count is the
\* number of distinct bill_id values, and the average revenue per transaction
\* is their quotient (0 when the count is 0).
C9_RevenueCountAndAverage ==
    /\ total_bills(df) = 0 => avg_order_value(df) = Zero
    /\ kpi.computed =>
          /\ kpi.total_revenue =
                SumSet([i \in DOMAIN csv |->
                           csv[i].quantity * csv[i].unit_price
                             - csv[i].discount_applied], KeptRows)
          /\ kpi.total_bills = Cardinality({csv[i].bill_id : i \in KeptRows})
          /\ kpi.total_bills > 0
          /\ kpi.avg_order_value[2] > 0
          /\ kpi.avg_order_value[1] * kpi.total_bills
                = kpi.total_revenue * kpi.avg_order_value[2]

\* C9 witness: two lines of one bill with revenues 20 and 4 give total 24,
\* count 1, average 24
C9_Witness ==
    /\ Len(df) = 2
    /\ df[1].bill_id = df[2].bill_id
    /\ df[1].line_revenue = 20
    /\ df[2].line_revenue = 4
    /\ kpi.computed
    /\ kpi.total_revenue = 24
    /\ kpi.total_bills = 1
    /\ kpi.avg_order_value = <<24, 1>>

\* percent change between the last two entries of a period-ordered series,
\* 0 with fewer than two entries or a previous entry of 0
PercentChange(series) ==
    LET n == Len(series)
    IN  IF n < 2 THEN Zero
        ELSE IF series[n - 1] = 0 THEN Zero
        ELSE Rat(100 * (series[n] - series[n - 1]), series[n - 1])

\* C10: month-over-month and quarter-over-quarter growth are the percent
\* change between the last two periods, 100 * (last - previous) / previous,
\* and 0 with fewer than two periods or a previous value of 0.
C10_GrowthIsPercentChange ==
    kpi.computed =>
        /\ kpi.monthly_growth = PercentChange(monthly_revenue(df))
        /\ qoq_growth(df) = PercentChange(quarterly_revenue(df))

\* C11: over a view that is not empty and whose product revenues do not add
\* up to zero, the cumulative percent of the last product of the full
\* descending series is exactly 100
C11_LastCumulativeShareIs100 ==
    LET pct == product_revenue_pct(product_revenue)
    IN  (product_revenue # <<>> /\ total_revenue(df) # 0)
            => pct[Len(pct)] = <<100, 1>>

\* a rendered view of two products or more with a non-zero total
C11_Witness ==
    /\ status = "rendered"
    /\ Len(product_revenue) >= 2
    /\ total_revenue(df) # 0
    /\ product_revenue_pct(product_revenue)[Len(product_revenue)] = <<100, 1>>

\* C12: over a view that is not empty and whose product revenues add up to
\* zero, every cumulative percent of the Pareto series is 0 and no quotient
\* with a zero denominator is formed
C12_ZeroTotalSharesAreZero ==
    LET pct == product_revenue_pct(product_revenue)
    IN  (product_revenue # <<>> /\ total_revenue(df) = 0)
            => \A i \in DOMAIN pct : pct[i] = Zero

\* C13: the rows of the heatmap pivot are Monday..Sunday in that order; a
\* (day, store) cell holds the line_revenue sum of its rows, and 0 when it has
\* no row, the cells of a weekday absent from the view included
C13_PivotZeroFilled ==
    status = "rendered" =>
        LET pivot == heatmap_pivot(df)
        IN  /\ DOMAIN pivot = DOMAIN day_order
            /\ \A i \in DOMAIN day_order :
                 \A s \in Range(Column(df, "store_location")) :
                    LET rs == SelectSeq(df, LAMBDA r :
                                  r.day_of_week = day_order[i] /\ r.store_location = s)
                    IN  pivot[i][s] = <<SumSeq(Column(rs, "line_revenue")), 1>>

\* position of the first row of the view that carries key value k
FirstOccurrence(rows, key, k) ==
    CHOOSE i \in DOMAIN rows :
        rows[i][key] = k /\ \A j \in 1..(i - 1) : rows[j][key] # k

\* a top-n ranking of the groups of the view by summed line_revenue: its
\* length, its descending order, nothing larger left out, ties in the order
\* of first occurrence
IsTopN(ranking, rows, key, n) ==
    LET g == GroupSum(rows, key, "line_revenue")
        distinct == Cardinality(DOMAIN g)
        returned == {ranking[i].key : i \in DOMAIN ranking}
    IN  /\ Len(ranking) = (IF distinct < n THEN distinct ELSE n)
        /\ \A i \in DOMAIN ranking :
             ranking[i].key \in DOMAIN g /\ ranking[i].value = g[ranking[i].key]
        /\ \A i, j \in DOMAIN ranking :
             i < j => /\ ranking[i].key # ranking[j].key
                      /\ ranking[i].value >= ranking[j].value
        /\ \A k \in DOMAIN g \ returned :
             \A i \in DOMAIN ranking : g[k] <= ranking[i].value
        /\ \A i, j \in DOMAIN ranking :
             (i < j /\ ranking[i].value = ranking[j].value)
                => FirstOccurrence(rows, key, ranking[i].key)
                       < FirstOccurrence(rows, key, ranking[j].key)

\* C14: the top 10 customers and the top 20 products are min(N, distinct
\* keys) entries in descending revenue order, no omitted key above a returned
\* one, keys of equal revenue in the order of their first row in the view
C14_TopNRanking ==
    status = "rendered" =>
        /\ IsTopN(customer_stats, df, "customer_id", TopCustomers)
        /\ IsTopN(HeadN(product_revenue, TopProducts), df, "product_name", TopProducts)

\* C16: over a view that is not empty, the best store and the best category
\* have a revenue no other store or category exceeds, the best channel has an
\* average order value (revenue / distinct bills) no other channel exceeds,
\* the best segment a revenue per distinct customer no other segment exceeds,
\* and the value reported with each is that largest value
C16_InsightsAttainMaximum ==
    ~IsEmptyView(df) =>
        LET revenue_by_store == GroupSum(df, "store_location", "line_revenue")
            revenue_by_category == GroupSum(df, "product_category", "line_revenue")
            bills == GroupNUnique(df, "channel", "bill_id")
            channel_revenue == GroupSum(df, "channel", "line_revenue")
            customers == GroupNUnique(df, "customer_segment", "customer_id")
            segment_revenue == GroupSum(df, "customer_segment", "line_revenue")
        IN  /\ insights.computed
            /\ insights.best_store \in DOMAIN revenue_by_store
            /\ insights.best_store_revenue = revenue_by_store[insights.best_store]
            /\ \A k \in DOMAIN revenue_by_store :
                 revenue_by_store[k] <= insights.best_store_revenue
            /\ insights.best_category \in DOMAIN revenue_by_category
            /\ insights.best_category_revenue = revenue_by_category[insights.best_category]
            /\ \A k \in DOMAIN revenue_by_category :
                 revenue_by_category[k] <= insights.best_category_revenue
            /\ insights.best_channel \in DOMAIN bills
            /\ insights.best_channel_aov =
                 Rat(channel_revenue[insights.best_channel], bills[insights.best_channel])
            /\ \A k \in DOMAIN bills :
                 channel_revenue[k] * insights.best_channel_aov[2]
                     <= insights.best_channel_aov[1] * bills[k]
            /\ insights.best_segment \in DOMAIN customers
            /\ insights.best_segment_acv =
                 Rat(segment_revenue[insights.best_segment], customers[insights.best_segment])
            /\ \A k \in DOMAIN customers :
                 segment_revenue[k] * insights.best_segment_acv[2]
                     <= insights.best_segment_acv[1] * customers[k]

\* two stores, two categories, two channels and two segments in the view
C16_Witness ==
    /\ insights.computed
    /\ Cardinality(GroupKeys(df, "store_location")) >= 2
    /\ Cardinality(GroupKeys(df, "product_category")) >= 2
    /\ Cardinality(GroupKeys(df, "channel")) >= 2
    /\ Cardinality(GroupKeys(df, "customer_segment")) >= 2
    /\ \E k \in GroupKeys(df, "channel") :
         QuotientLeq(channel_aov(df)[k], insights.best_channel_aov)
            /\ channel_aov(df)[k] # insights.best_channel_aov

\* C18: with highValueOnly enabled the view keeps all or none of the rows of
\* each customer that passed the other predicates, so every customer of the
\* view has a total over the view of at least the threshold: the high-value
\* count equals the number of distinct customers, and the high-value filter
\* applied to the view again removes nothing
C18_HighValueViewIsClosed ==
    show_high_value_only =>
        /\ \A c \in GroupKeys(df_original, "customer_id") :
             KeptRowsOf(c) = {} \/ KeptRowsOf(c) = BasicRowsOf(c)
        /\ \A c \in GroupKeys(df, "customer_id") :
             GroupSum(df, "customer_id", "line_revenue")[c] >= high_value_threshold
        /\ (kpi.computed => kpi.high_value_count = kpi.unique_customers)
        /\ HighValueFilter(df, TRUE, high_value_threshold) = df

\* the filter dropped one customer and kept another that has two rows
C18_Witness ==
    /\ show_high_value_only
    /\ kpi.computed
    /\ kpi.high_value_count = kpi.unique_customers
    /\ \E c \in GroupKeys(df_original, "customer_id") :
          BasicRowsOf(c) # {} /\ KeptRowsOf(c) = {}
    /\ \E c \in GroupKeys(df, "customer_id") : Cardinality(KeptRowsOf(c)) >= 2
    /\ HighValueFilter(df, TRUE, high_value_threshold) = df

\* C19: whenever the aggregates are computed, every per-group ratio (store,
\* channel and quarterly average order value, segment revenue per customer)
\* has a denominator of at least 1: no group divides by zero
C19_GroupDenominatorsPositive ==
    kpi.computed =>
        /\ \A k \in GroupKeys(df, "store_location") :
             GroupNUnique(df, "store_location", "bill_id")[k] >= 1
                /\ store_aov(df)[k][2] >= 1
        /\ \A k \in GroupKeys(df, "channel") :
             GroupNUnique(df, "channel", "bill_id")[k] >= 1
                /\ channel_aov(df)[k][2] >= 1
        /\ \A k \in GroupKeys(df, "quarter") :
             GroupNUnique(df, "quarter", "bill_id")[k] >= 1
                /\ quarterly_aov(df)[k][2] >= 1
        /\ \A k \in GroupKeys(df, "customer_segment") :
             GroupNUnique(df, "customer_segment", "customer_id")[k] >= 1
                /\ segment_value(df)[k][2] >= 1

\* aggregates computed over two stores, two channels, two quarters and two
\* segments
C19_Witness ==
    /\ kpi.computed
    /\ Cardinality(DOMAIN store_aov(df)) >= 2
    /\ Cardinality(DOMAIN channel_aov(df)) >= 2
    /\ Cardinality(DOMAIN quarterly_aov(df)) >= 2
    /\ Cardinality(DOMAIN segment_value(df)) >= 2
    /\ \A k \in DOMAIN store_aov(df) : store_aov(df)[k][2] >= 1

\* C15: the predicates other than the high-value one give the same view in
\* whatever order they are applied, and with the high-value filter applied
\* after them the view is the one the script computes; applying the
\* high-value filter before another predicate can give a different view
\* (C15_Witness)
C15_OrderOfPredicates ==
    /\ pending = {"high_value"} => df = BasicFilters(df_original, Widgets)
    /\ (pending = {} /\ ~hv_early) => df = ApplyFilters(df_original, Widgets)

\* a finished run that applied the high-value filter before another
\* predicate and ended with a view other than the script's
C15_Witness ==
    /\ pending = {}
    /\ hv_early
    /\ df # ApplyFilters(df_original, Widgets)

\* a range whose lower end is above its upper end
InconsistentRange ==
    \/ StartDate(date_range) > EndDate(date_range)
    \/ discount_range[1] > discount_range[2]
    \/ quantity_range[1] > quantity_range[2]

====
